---- MODULE Spec2Model ----
(***************************************************************************)
(* Model of the two preview assemblers of the repository:                  *)
(*   src/build_preview.py     (guarded replacement, logs found/not found)  *)
(*   src/assemble_preview.py  (unconditional replacement)                  *)
(* Each reads Index.html, Stylesheet.html and JavaScript.html, replaces    *)
(* the two include markers in the index text and writes the preview file.  *)
(* Texts are sequences of one-character strings.                           *)
(***************************************************************************)
EXTENDS Integers, Sequences, FiniteSets

VARIABLES
    script,           \* which of the two scripts this process runs
    Index_html,       \* content of Index.html on disk
    Stylesheet_html,  \* content of Stylesheet.html on disk
    JavaScript_html,  \* content of JavaScript.html on disk
    preview_exists,   \* does the file at preview_path exist
    preview_file,     \* content of the file at preview_path
    pc,               \* position of the run: [op, arg]
    index_content,    \* Python variable index_content
    style_content,    \* Python variable style_content
    js_content,       \* Python variable js_content
    preview_content,  \* Python variable preview_content (assemble_preview.py)
    handles,          \* file handles currently open
    console,          \* lines printed by this run
    start_exists,     \* history: preview_exists when the run started
    start_preview,    \* history: preview_file when the run started
    has_last,         \* history: an earlier run completed
    last_out          \* history: preview_file at the end of that run

vars == <<script, Index_html, Stylesheet_html, JavaScript_html, preview_exists,
          preview_file, pc, index_content, style_content, js_content,
          preview_content, handles, console, start_exists, start_preview,
          has_last, last_out>>

inputs == <<script, Index_html, Stylesheet_html, JavaScript_html>>
locals == <<index_content, style_content, js_content, preview_content>>
history == <<start_exists, start_preview, has_last, last_out>>
disk == <<preview_exists, preview_file>>

-----------------------------------------------------------------------------
(* Texts *)

MarkerHead == <<"<", "?", "!", "=", " ", "i", "n", "c", "l", "u", "d", "e", "(", "'">>
StylesheetName == <<"S", "t", "y", "l", "e", "s", "h", "e", "e", "t">>
JavaScriptName == <<"J", "a", "v", "a", "S", "c", "r", "i", "p", "t">>
MarkerTail == <<"'", ")", ";", " ", "?", ">">>

\* "<?!= include('Stylesheet'); ?>"
M_A == MarkerHead \o StylesheetName \o MarkerTail
\* "<?!= include('JavaScript'); ?>"
M_B == MarkerHead \o JavaScriptName \o MarkerTail

StartsWith(s, sub) == Len(s) >= Len(sub) /\ SubSeq(s, 1, Len(sub)) = sub

\* Python: sub in s
Contains(s, sub) ==
    \E i \in 1..(Len(s) - Len(sub) + 1) : SubSeq(s, i, i + Len(sub) - 1) = sub

\* Python: s.replace(old, new) for a non-empty old: every non-overlapping
\* occurrence, scanning left to right; the inserted text is not rescanned.
RECURSIVE ReplaceFrom(_, _, _, _)
ReplaceFrom(s, old, new, i) ==
    IF i + Len(old) - 1 > Len(s) THEN SubSeq(s, i, Len(s))
    ELSE IF SubSeq(s, i, i + Len(old) - 1) = old
         THEN new \o ReplaceFrom(s, old, new, i + Len(old))
         ELSE <<s[i]>> \o ReplaceFrom(s, old, new, i + 1)

RECURSIVE ReplaceFirstFrom(_, _, _, _)
ReplaceFirstFrom(s, old, new, i) ==
    IF i + Len(old) - 1 > Len(s) THEN SubSeq(s, i, Len(s))
    ELSE IF SubSeq(s, i, i + Len(old) - 1) = old
         THEN new \o SubSeq(s, i + Len(old), Len(s))
         ELSE <<s[i]>> \o ReplaceFirstFrom(s, old, new, i + 1)

ReplaceFirst(s, old, new) == ReplaceFirstFrom(s, old, new, 1)

Replace(s, old, new) == ReplaceFrom(s, old, new, 1)

-----------------------------------------------------------------------------
(* Paths and log lines *)

Build == "build_preview.py"
Assemble == "assemble_preview.py"
Scripts == {Build, Assemble}

InputFiles == {"Index.html", "Stylesheet.html", "JavaScript.html"}

preview_path == IF script = Build THEN "Preview Folder/preview_v6.html"
                ELSE "PreviewIndex.html"

NoLength == 0 - 1

Line(kind, what, length) == [kind |-> kind, what |-> what, length |-> length]
FoundLine(name) == Line("Found", name, NoLength)
WarningLine(name) == Line("WARNING", name, NoLength)
\* build_preview.py reports the length, assemble_preview.py does not
CreatedLine == IF script = Build
               THEN Line("Created", preview_path, Len(index_content))
               ELSE Line("Created", preview_path, NoLength)

PrependLine(c, line) == <<line>> \o c

\* print(...)
Log(c, line) == Append(c, line)

-----------------------------------------------------------------------------
(* Input space *)

MaxPieces == 2

Txt == <<"<", "p", ">">>
Tag == <<"<", "b", ">">>
OldPreview == <<"o", "l", "d">>

Pieces == {M_A, M_B, MarkerHead, StylesheetName \o MarkerTail,
           JavaScriptName \o MarkerTail, Txt}

Fragments == {<<>>, Txt, Tag, M_A, M_B, JavaScriptName \o MarkerTail}

RECURSIVE Flatten(_)
Flatten(ps) == IF ps = <<>> THEN <<>> ELSE Head(ps) \o Flatten(Tail(ps))

Mains == {Flatten(ps) : ps \in UNION {[1..k -> Pieces] : k \in 0..MaxPieces}}

-----------------------------------------------------------------------------
(* Control *)

At(op, arg) == [op |-> op, arg |-> arg]

FileOf(name) ==
    CASE name = "Index.html" -> Index_html
      [] name = "Stylesheet.html" -> Stylesheet_html
      [] name = "JavaScript.html" -> JavaScript_html

\* statement after the with-block of an input file
AfterInput(name) ==
    CASE name = "Index.html" -> At("open", "Stylesheet.html")
      [] name = "Stylesheet.html" -> At("open", "JavaScript.html")
      [] name = "JavaScript.html" -> At("subst", "Stylesheet")

Swallow(p) == At("open_preview", "preview")

\* an uncaught exception ends the process
Propagate(p) == At("error", p.arg)

LeakHandle(h, f) == h

\* __exit__ of the with-statement closes the file
ExitHandle(h, f) == h \ {f}

Init ==
    /\ script \in Scripts
    /\ Index_html \in Mains
    /\ Stylesheet_html \in Fragments
    /\ JavaScript_html \in Fragments
    /\ preview_exists \in BOOLEAN
    /\ preview_file = IF preview_exists THEN OldPreview ELSE <<>>
    /\ pc = At("open", "Index.html")
    /\ index_content = <<>>
    /\ style_content = <<>>
    /\ js_content = <<>>
    /\ preview_content = <<>>
    /\ handles = {}
    /\ console = <<>>
    /\ start_exists = preview_exists
    /\ start_preview = preview_file
    /\ has_last = FALSE
    /\ last_out = <<>>

-----------------------------------------------------------------------------
(* Reading the three inputs: with open(path, 'r') as f: x = f.read() *)

\* open(path, 'r') succeeds
OpenInput ==
    /\ pc.op = "open"
    /\ handles' = handles \cup {pc.arg}
    /\ pc' = At("read", pc.arg)
    /\ UNCHANGED <<inputs, disk, locals, console, history>>

\* open(path, 'r') raises: the file is missing or unreadable
OpenInputFail ==
    /\ pc.op = "open"
    /\ pc' = Propagate(pc)
    /\ UNCHANGED <<inputs, disk, locals, handles, console, history>>

\* x = f.read()
ReadInput ==
    /\ pc.op = "read"
    /\ index_content' = IF pc.arg = "Index.html" THEN FileOf(pc.arg) ELSE index_content
    /\ style_content' = IF pc.arg = "Stylesheet.html" THEN FileOf(pc.arg) ELSE style_content
    /\ js_content' = IF pc.arg = "JavaScript.html" THEN FileOf(pc.arg) ELSE js_content
    /\ pc' = At("exit", pc.arg)
    /\ UNCHANGED <<inputs, disk, preview_content, handles, console, history>>

\* f.read() raises: the with-statement closes f and the exception propagates
ReadInputFail ==
    /\ pc.op = "read"
    /\ handles' = ExitHandle(handles, pc.arg)
    /\ pc' = Propagate(pc)
    /\ UNCHANGED <<inputs, disk, locals, console, history>>

\* leaving the with-block closes f
ExitInput ==
    /\ pc.op = "exit"
    /\ handles' = ExitHandle(handles, pc.arg)
    /\ pc' = AfterInput(pc.arg)
    /\ UNCHANGED <<inputs, disk, locals, console, history>>

-----------------------------------------------------------------------------
(* The two substitutions *)

StylesheetFoundByJavaScript == Contains(index_content, M_B)

\* build_preview.py: if "<?!= include('Stylesheet'); ?>" in index_content
StylesheetFound == Contains(index_content, M_A)

JavaScriptFoundInOriginal == Contains(Index_html, M_B)

\* build_preview.py: if "<?!= include('JavaScript'); ?>" in index_content
\* (index_content is by now the text after the Stylesheet substitution)
JavaScriptFound == Contains(index_content, M_B)

StaleSource == Index_html

\* the text the JavaScript replacement is applied to: the result of the
\* Stylesheet step (index_content in build_preview.py, preview_content in
\* assemble_preview.py)
JavaScriptSource == IF script = Build THEN index_content ELSE preview_content

\* assemble_preview.py, both replacements
AssembleText(index, style, js) == Replace(Replace(index, M_A, style), M_B, js)

SubstituteStylesheet ==
    /\ pc = At("subst", "Stylesheet")
    /\ IF script = Build
       THEN /\ IF StylesheetFound
               THEN /\ console' = Log(console, FoundLine("Stylesheet"))
                    /\ index_content' = Replace(index_content, M_A, style_content)
               ELSE /\ console' = Log(console, WarningLine("Stylesheet"))
                    /\ index_content' = index_content
            /\ UNCHANGED preview_content
       ELSE /\ preview_content' = Replace(index_content, M_A, style_content)
            /\ UNCHANGED <<index_content, console>>
    /\ pc' = At("subst", "JavaScript")
    /\ UNCHANGED <<inputs, disk, style_content, js_content, handles, history>>

SubstituteJavaScript ==
    /\ pc = At("subst", "JavaScript")
    /\ IF script = Build
       THEN /\ IF JavaScriptFound
               THEN /\ console' = Log(console, FoundLine("JavaScript"))
                    /\ index_content' = Replace(JavaScriptSource, M_B, js_content)
               ELSE /\ console' = Log(console, WarningLine("JavaScript"))
                    /\ index_content' = index_content
            /\ UNCHANGED preview_content
       ELSE /\ preview_content' = Replace(JavaScriptSource, M_B, js_content)
            /\ UNCHANGED <<index_content, console>>
    /\ pc' = At("open_preview", "preview")
    /\ UNCHANGED <<inputs, disk, style_content, js_content, handles, history>>

-----------------------------------------------------------------------------
(* Writing the preview: with open(preview_path, 'w') as f: f.write(text) *)

WrittenIndex == index_content

\* the text handed to f.write
Written == IF script = Build THEN index_content ELSE preview_content

KeepOld(old) == old

\* mode 'w' truncates an existing file
Truncate(old) == <<>>

OpenPreview ==
    /\ pc.op = "open_preview"
    /\ preview_exists' = TRUE
    /\ preview_file' = Truncate(preview_file)
    /\ handles' = handles \cup {preview_path}
    /\ pc' = At("write", "preview")
    /\ UNCHANGED <<inputs, locals, console, history>>

\* open(preview_path, 'w') raises: directory missing, permission denied
OpenPreviewFail ==
    /\ pc.op = "open_preview"
    /\ pc' = Propagate(pc)
    /\ UNCHANGED <<inputs, disk, locals, handles, console, history>>

WritePreview ==
    /\ pc.op = "write"
    /\ preview_file' = preview_file \o Written
    /\ pc' = At("exit_preview", "preview")
    /\ UNCHANGED <<inputs, preview_exists, locals, handles, console, history>>

\* the write raises (disk full): some prefix of the text reached the file
WritePreviewFail ==
    /\ pc.op = "write"
    /\ \E k \in {0, Len(Written) \div 2} :
          preview_file' = preview_file \o SubSeq(Written, 1, k)
    /\ handles' = ExitHandle(handles, preview_path)
    /\ pc' = Propagate(pc)
    /\ UNCHANGED <<inputs, preview_exists, locals, console, history>>

ExitPreview ==
    /\ pc.op = "exit_preview"
    /\ handles' = ExitHandle(handles, preview_path)
    /\ pc' = At("print", "preview")
    /\ UNCHANGED <<inputs, disk, locals, console, history>>

\* print(f"Created {preview_path} ...")
PrintCreated ==
    /\ pc.op = "print"
    /\ console' = Log(console, CreatedLine)
    /\ pc' = At("done", "preview")
    /\ UNCHANGED <<inputs, disk, locals, handles, history>>

\* The operator starts the script again on the same input files.
Rerun ==
    /\ pc.op \in {"done", "error"}
    /\ pc' = At("open", "Index.html")
    /\ index_content' = <<>>
    /\ style_content' = <<>>
    /\ js_content' = <<>>
    /\ preview_content' = <<>>
    /\ handles' = {}
    /\ console' = <<>>
    /\ start_exists' = preview_exists
    /\ start_preview' = preview_file
    /\ has_last' = (has_last \/ pc.op = "done")
    /\ last_out' = IF pc.op = "done" THEN preview_file ELSE last_out
    /\ UNCHANGED <<inputs, disk>>

Next ==
    \/ OpenInput
    \/ OpenInputFail
    \/ ReadInput
    \/ ReadInputFail
    \/ ExitInput
    \/ SubstituteStylesheet
    \/ SubstituteJavaScript
    \/ OpenPreview
    \/ OpenPreviewFail
    \/ WritePreview
    \/ WritePreviewFail
    \/ ExitPreview
    \/ PrintCreated
    \/ Rerun

Spec == Init /\ [][Next]_vars

-----------------------------------------------------------------------------
(* Vocabulary of the properties, defined independently of Replace and      *)
(* Contains: find the next occurrence, splice, continue after it.          *)

Occurs(s, m, i) == i >= 1 /\ i + Len(m) - 1 <= Len(s) /\ SubSeq(s, i, i + Len(m) - 1) = m

\* least position >= i where m occurs in s, 0 if there is none
RECURSIVE Find(_, _, _)
Find(s, m, i) ==
    IF i + Len(m) - 1 > Len(s) THEN 0
    ELSE IF Occurs(s, m, i) THEN i ELSE Find(s, m, i + 1)

RECURSIVE SpliceFrom(_, _, _, _)
SpliceFrom(s, m, r, i) ==
    LET j == Find(s, m, i)
    IN  IF j = 0 THEN SubSeq(s, i, Len(s))
        ELSE SubSeq(s, i, j - 1) \o r \o SpliceFrom(s, m, r, j + Len(m))

\* s with every non-overlapping occurrence of m, left to right, replaced by r
ReplaceAll(s, m, r) == SpliceFrom(s, m, r, 1)

Has(s, m) == Find(s, m, 1) # 0

\* number of non-overlapping occurrences of m in s, as Python's s.count(m)
RECURSIVE CountFrom(_, _, _)
CountFrom(s, m, i) ==
    LET j == Find(s, m, i)
    IN  IF j = 0 THEN 0 ELSE 1 + CountFrom(s, m, j + Len(m))

Count(s, m) == IF m = <<>> THEN Len(s) + 1 ELSE CountFrom(s, m, 1)

Done == pc.op = "done"
Failed == pc.op = "error"

\* the main text after the Stylesheet pass, and after both passes
AfterStylesheet == ReplaceAll(Index_html, M_A, Stylesheet_html)
AfterBoth == ReplaceAll(AfterStylesheet, M_B, JavaScript_html)

Kinds(c) == {c[i].kind : i \in 1..Len(c)}

-----------------------------------------------------------------------------
(* C1: after a successful run the preview file holds                       *)
(* replaceAll(replaceAll(main, M_A, fragment A), M_B, fragment B): every   *)
(* occurrence is replaced, and the JavaScript pass works on the result of  *)
(* the Stylesheet pass.                                                    *)
C1_WrittenIsBothReplacements ==
    Done => preview_exists /\ preview_file = AfterBoth

\* two Stylesheet markers, and a JavaScript marker that only the first pass
\* brings into the text
C1_Witness ==
    /\ Done
    /\ Count(Index_html, M_A) = 2
    /\ ~Has(Index_html, M_B)
    /\ Stylesheet_html = M_B
    /\ JavaScript_html = Txt
    /\ preview_file = Txt \o Txt

(* C10: build_preview.py (replacement behind a containment check) writes   *)
(* the text assemble_preview.py (unconditional replacement) computes from  *)
(* the same three inputs.                                                  *)
C10_BuildWritesAssembleText ==
    (Done /\ script = Build) =>
        preview_file = AssembleText(Index_html, Stylesheet_html, JavaScript_html)

\* a run of build_preview.py that skipped the Stylesheet replacement and
\* took the JavaScript one
C10_Witness ==
    /\ Done
    /\ script = Build
    /\ console[1] = WarningLine("Stylesheet")
    /\ console[2] = FoundLine("JavaScript")
    /\ preview_file # Index_html

(* C8: a run that follows a completed run on the same inputs leaves the    *)
(* same preview file, whatever the file held before the first run.         *)
C8_RerunWritesSameFile ==
    (Done /\ has_last) => preview_file = last_out

\* the second run found the first run's non-empty output in place
C8_Witness ==
    /\ Done
    /\ has_last
    /\ start_preview = last_out
    /\ last_out # <<>>
    /\ last_out # OldPreview

(* C9: at most one file handle is open at any time, and none is open when  *)
(* the run has ended, normally or by an exception.                         *)
C9_HandleDiscipline ==
    /\ Cardinality(handles) <= 1
    /\ (Done \/ Failed) => handles = {}

\* the write failed after the open truncated an existing preview
C9_Witness ==
    /\ pc = At("error", "preview")
    /\ start_preview = OldPreview
    /\ preview_file = <<>>
    /\ handles = {}

(* C6: the preview file is open only once the three inputs are read and    *)
(* both substitutions are done; a run that fails on an input leaves the    *)
(* preview file as it was and prints no success line.                      *)
C6_WriteOnlyAfterReadsAndSubstitutions ==
    /\ (preview_path \in handles) =>
          /\ pc.op \in {"write", "exit_preview"}
          /\ style_content = Stylesheet_html
          /\ js_content = JavaScript_html
          /\ Written = AfterBoth
    /\ (Failed /\ pc.arg \in InputFiles) =>
          /\ preview_exists = start_exists
          /\ preview_file = start_preview
          /\ "Created" \notin Kinds(console)

\* the last input could not be read; the old preview is still there
C6_Witness ==
    /\ pc = At("error", "JavaScript.html")
    /\ index_content # <<>>
    /\ start_exists
    /\ preview_file = OldPreview

-----------------------------------------------------------------------------
(* C2 as stated: substituting the JavaScript marker first and the          *)
(* Stylesheet marker second gives the text the run writes.                 *)
C2_AnyOrderSameOutput ==
    Done => preview_file =
        ReplaceAll(ReplaceAll(Index_html, M_B, JavaScript_html), M_A, Stylesheet_html)

\* neither pass brings an occurrence of the other marker into the text
NoMarkerIntroduced ==
    /\ Count(AfterStylesheet, M_B) = Count(Index_html, M_B)
    /\ Count(ReplaceAll(Index_html, M_B, JavaScript_html), M_A) = Count(Index_html, M_A)

(* C2, amended: the two orders give the same output when neither           *)
(* substitution introduces an occurrence of the other marker, i.e. the     *)
(* text after the Stylesheet pass holds as many JavaScript markers as the  *)
(* main document, and the text after a JavaScript pass as many Stylesheet  *)
(* markers as the main document.                                           *)
C2_OrderIndependentWhenNoMarkerIntroduced ==
    (Done /\ NoMarkerIntroduced) => preview_file =
        ReplaceAll(ReplaceAll(Index_html, M_B, JavaScript_html), M_A, Stylesheet_html)

\* both markers present, both fragments inlined
C2_Witness ==
    /\ Done
    /\ NoMarkerIntroduced
    /\ Has(Index_html, M_A)
    /\ Has(Index_html, M_B)
    /\ Stylesheet_html = Txt
    /\ JavaScript_html = Tag
    /\ Has(preview_file, Txt)
    /\ Has(preview_file, Tag)

\* fragment A is inlined by the run / fragment B is inlined by the run
InlinedA == Has(Index_html, M_A)
InlinedB == Has(AfterStylesheet, M_B)

(* C3 as stated: marker text of either kind that an inlined fragment of    *)
(* either kind carries is in the written output.                           *)
C3_FragmentMarkersKept ==
    Done =>
        /\ (InlinedA /\ Has(Stylesheet_html, M_A)) => Has(preview_file, M_A)
        /\ (InlinedA /\ Has(Stylesheet_html, M_B)) => Has(preview_file, M_B)
        /\ (InlinedB /\ Has(JavaScript_html, M_A)) => Has(preview_file, M_A)
        /\ (InlinedB /\ Has(JavaScript_html, M_B)) => Has(preview_file, M_B)

(* C3, amended: Stylesheet-marker text carried by an inlined fragment (A   *)
(* or B) and JavaScript-marker text carried by fragment B are never        *)
(* substituted and are in the written output; JavaScript-marker text       *)
(* carried by fragment A is substituted by the second pass, which runs on  *)
(* the text with fragment A already inlined: for a main document that is   *)
(* just the Stylesheet marker the output is fragment A with its JavaScript *)
(* markers replaced by fragment B.                                         *)
C3_FragmentMarkersKeptExceptJavaScriptInA ==
    Done =>
        /\ (InlinedA /\ Has(Stylesheet_html, M_A)) => Has(preview_file, M_A)
        /\ (InlinedB /\ Has(JavaScript_html, M_A)) => Has(preview_file, M_A)
        /\ (InlinedB /\ Has(JavaScript_html, M_B)) => Has(preview_file, M_B)
        /\ (Index_html = M_A) =>
              preview_file = ReplaceAll(Stylesheet_html, M_B, JavaScript_html)

\* fragment A carried the JavaScript marker and the second pass replaced it
C3_Witness ==
    /\ Done
    /\ Index_html = M_A
    /\ Stylesheet_html = M_B
    /\ JavaScript_html = Tag
    /\ preview_file = Tag

\* markup that opens with "<", closes with ">" and carries no marker
Delimited(f) ==
    /\ Len(f) >= 1
    /\ f[1] = "<"
    /\ f[Len(f)] = ">"
    /\ ~Has(f, M_A)
    /\ ~Has(f, M_B)

(* C4 as stated: with N occurrences of a marker in the main document the   *)
(* output holds exactly N occurrences of the fragment's content, and none  *)
(* of the marker unless the fragment carries it (read for non-empty        *)
(* fragments, where counting occurrences is meaningful).                   *)
C4_ExactlyNCopiesNoMarker ==
    (Done /\ Stylesheet_html # <<>> /\ JavaScript_html # <<>>) =>
        /\ Count(preview_file, Stylesheet_html) = Count(Index_html, M_A)
        /\ Count(preview_file, JavaScript_html) = Count(Index_html, M_B)
        /\ ~Has(Stylesheet_html, M_A) => ~Has(preview_file, M_A)
        /\ ~Has(JavaScript_html, M_B) => ~Has(preview_file, M_B)

(* C4, amended: when both fragments are non-empty markup that starts with  *)
(* "<", ends with ">" and carries neither marker, a main document with N   *)
(* occurrences of a marker gives an output with at least N occurrences of  *)
(* that fragment's content and no occurrence of either marker.             *)
C4_AtLeastNCopiesNoMarkerForDelimited ==
    (Done /\ Delimited(Stylesheet_html) /\ Delimited(JavaScript_html)) =>
        /\ Count(preview_file, Stylesheet_html) >= Count(Index_html, M_A)
        /\ Count(preview_file, JavaScript_html) >= Count(Index_html, M_B)
        /\ ~Has(preview_file, M_A)
        /\ ~Has(preview_file, M_B)

\* one Stylesheet marker, two occurrences of fragment A's text in the output
C4_Witness ==
    /\ Done
    /\ Stylesheet_html = Txt
    /\ JavaScript_html = Tag
    /\ Count(Index_html, M_A) = 1
    /\ Count(preview_file, Txt) = 2

====
